---------------------------- MODULE Spec2Model ----------------------------
(***************************************************************************)
(* Model of the Mantaro river scripts: funcion.py (1-D concentration       *)
(* profile), prototipo1.py (MantaroRiverModel: mesh and 2-D pollution      *)
(* field) and prototipo_final.py (MantaroRiverAnimation: particles).       *)
(*                                                                         *)
(* Representation of the floating-point quantities (fixed point):          *)
(*   distances along the river, rates (waste, B) and k : tenths            *)
(*   lateral coordinates                               : hundredths        *)
(*   exp values and lateral factors                    : 1/ExpScale        *)
(*   concentrations  Bi * k * exp(..)                  : 1/(100*ExpScale)  *)
(*   angles                                            : 1/1000 of a turn  *)
(***************************************************************************)
EXTENDS Integers, Sequences, FiniteSets, TLC

Max(a, b) == IF a >= b THEN a ELSE b
Min(a, b) == IF a <= b THEN a ELSE b
Abs(a) == IF a >= 0 THEN a ELSE -a

\* floor(a * b / s) for a >= 0, 0 <= b <= s, without leaving 32 bits
MulDiv(a, b, s) == (a \div s) * b + ((a % s) * b) \div s

(***************************************************************************)
(* np.exp.  The argument t is in hundredths; the value is in 1/ExpScale.   *)
(* exp(0) is exactly 1, the value is monotone, and it is 0 only where the  *)
(* double-precision exp underflows (argument below -745.13).               *)
(***************************************************************************)
ExpScale == 100 * 100
ExpUnderflow == 745 * 100 + 13
\* exp(-n) in 1/10^9, the other tables in 1/ExpScale
ExpNegInt == <<1000000000, 367879441, 135335283, 49787068, 18315638, 6737946, 2478752, 911881, 335462, 123409>>
ExpNegTenth == <<10000, 9048, 8187, 7408, 6703, 6065, 5488, 4965, 4493, 4065>>
ExpNegHundredth == <<10000, 9900, 9801, 9704, 9607, 9512, 9417, 9323, 9231, 9139>>
ExpPosInt == <<10000, 27182, 73890, 200855, 545981, 1484131, 4034287>>
ExpPosTenth == <<10000, 11051, 12214, 13498, 14918, 16487, 18221, 20137, 22255, 24596>>
ExpPosHundredth == <<10000, 10100, 10202, 10304, 10408, 10512, 10618, 10725, 10832, 10941>>

\* exp(-t/100), t >= 0
ExpNeg(t) ==
  IF t > ExpUnderflow THEN 0
  ELSE IF t >= 1000 THEN 1
  ELSE Max(1, MulDiv(MulDiv(ExpNegInt[(t \div 100) + 1],
                            ExpNegTenth[((t % 100) \div 10) + 1], ExpScale),
                     ExpNegHundredth[(t % 10) + 1], ExpScale) \div 100000)

\* exp(t/100), 0 <= t < 700
ExpPos(t) ==
  MulDiv(MulDiv(ExpPosInt[(t \div 100) + 1],
                ExpPosHundredth[(t % 10) + 1], ExpScale),
         ExpPosTenth[((t % 100) \div 10) + 1] \div 2, ExpScale \div 2)

np_exp(t) == IF t <= 0 THEN ExpNeg(-t) ELSE ExpPos(t)

(***************************************************************************)
(* np.sin of p/1000 turns, value in thousandths (Bhaskara's rational       *)
(* approximation: exact at 0, 1/4, 1/2, 3/4 turn, |value| <= 1000).        *)
(***************************************************************************)
SinHalf(q) == (16000 * q * (500 - q)) \div (1250000 - 4 * q * (500 - q))
np_sin(p) == LET q == p % 1000 IN IF q <= 500 THEN SinHalf(q) ELSE -SinHalf(q - 500)

\* np.linspace(a, b, n)[i0] for the 0-based index i0
linspace(a, b, n, i0) == IF n = 1 THEN a ELSE a + ((b - a) * i0) \div (n - 1)

\* n / d rounded to the nearest integer, halves to the even neighbour
\* (Python's round, and the rounding of a float64 result), for n >= 0
RoundHalfEven(n, d) ==
  LET q == n \div d
      r == n % d
  IN  IF 2 * r < d THEN q
      ELSE IF 2 * r > d THEN q + 1
      ELSE IF q % 2 = 0 THEN q ELSE q + 1

\* A float64 sum is rounded to the significand.  The quantities here carry
\* fewer digits than a float64, and so does the significand kept: Mantissa bits.
Mantissa == 20

\* the number of low bits a value v >= 0 loses to fit the significand
Excess(v) ==
  IF v < 2 ^ Mantissa THEN 0
  ELSE CHOOSE e \in 1..(30 - Mantissa) : 2 ^ (Mantissa + e - 1) <= v /\ v < 2 ^ (Mantissa + e)

RoundSig(v) == RoundHalfEven(v, 2 ^ Excess(v)) * 2 ^ Excess(v)

\* a + b in floating point (`+=` on float64 values)
np_add(a, b) == IF a + b >= 0 THEN RoundSig(a + b) ELSE -RoundSig(-(a + b))

VARIABLES
  program,          \* the script that runs: "prototipo1", "prototipo_final", "funcion"
  pc,               \* "new": not constructed, "ready": constructed, "error": __init__ raised
  k,                \* self.k (funcion.py: k), tenths
  river_length,     \* self.river_length, tenths of km
  resolution,       \* self.resolution
  cities_data,      \* self.cities_data in insertion order: [name, distance, waste], tenths
  x_river,          \* self.x_river, tenths of km
  y_river,          \* prototipo1: the normalised lateral samples, hundredths
  y_center,         \* prototipo1: centerline offset per longitudinal sample, hundredths
  Y_adjusted,       \* prototipo1: Y_adjusted[j][i], hundredths
  ret,              \* the value returned by the last call
  prev,             \* the value returned by the direct pollution_function call before the last
  x,                \* funcion.py: the samples x, tenths of km
  C_i,              \* funcion.py: the last single-source profile
  C_total,          \* funcion.py: the accumulated profile
  fi,               \* funcion.py: number of entries of puntos processed
  z_river,          \* prototipo_final: self.z_river, tenths of m
  river_width,      \* prototipo_final: self.river_width, hundredths of km
  waste_particles,  \* prototipo_final: self.waste_particles
  particle_id,      \* prototipo_final: self.particle_id
  step,             \* prototipo_final: create_frame calls made by create_animation
  oob,              \* history: how each out-of-range sample index was handled
  created,          \* history: particles appended so far, per source city
  fp_invalid,       \* history: a floating-point invalid operation (0/0) was evaluated
  accum,            \* prototipo1: the accumulation loops run column-wise by workers
  shown,            \* prototipo_final: the particles drawn in frame_0 and in the initial traces
  indexed,          \* prototipo_final: the indexes the river arrays were read at, by site
  particulas,       \* prototipo3: self.particulas
  zona,             \* prototipo3: ejecutar_simulacion's local zona (a text)
  kg_basura,        \* prototipo3: ejecutar_simulacion's local kg_basura
  prompts,          \* prototipo3: the number of input() calls made
  entered,          \* prototipo3: what the user did at the last prompt
  frame,            \* prototipo3: the next frame number FuncAnimation passes
  tiempo            \* prototipo3: self.tiempo, in tenths

mesh1 == <<y_center, Y_adjusted>>
funcion_vars == <<x, C_i, C_total, fi>>
sim_vars == <<particulas, zona, kg_basura, prompts, entered, frame, tiempo>>
anim_vars ==
  <<z_river, river_width, waste_particles, particle_id, step, created, fp_invalid, shown,
    indexed>>
vars == <<program, pc, k, river_length, resolution, cities_data, x_river, y_river,
          mesh1, ret, prev, funcion_vars, sim_vars, anim_vars, oob, accum>>

NoRet == [op |-> "none"]

(***************************************************************************)
(* Bounds of the inputs explored.                                          *)
(***************************************************************************)
MaxK == 2          \* k ranges over 0.1 .. MaxK/10
MaxRes == 4        \* longitudinal samples (resolution) 1 .. MaxRes
MaxLat == 3        \* lateral samples 1 .. MaxLat
MaxPos == 8        \* query positions 0 .. MaxPos * PosStep
PosStep == 5       \* spacing of the query positions, tenths of km

(***************************************************************************)
(* prototipo1.py : MantaroRiverModel                                       *)
(***************************************************************************)
Cities1 ==
  << [name |-> "Yauli (La Oroya)", distance |-> 0,    waste |-> 271],
     [name |-> "Jauja",            distance |-> 530,  waste |-> 105],
     [name |-> "Concepcion",       distance |-> 810,  waste |-> 388],
     [name |-> "Huancayo",         distance |-> 1030, waste |-> 3825],
     [name |-> "Chupaca",          distance |-> 1140, waste |-> 189] >>

river_length_1 == 1140
river_width_scale == 2

\* cities_data with the rate of the cities named in `over` replaced by w
WithWaste(cities, over, w) ==
  [c \in 1..Len(cities) |->
     IF cities[c].name \in over THEN [cities[c] EXCEPT !.waste = w] ELSE cities[c]]

CityNames(cities) == {cities[c].name : c \in 1..Len(cities)}

\* variant: one sample too many
XRiver_extra(L, n) == [i \in 1..(n + 1) |-> linspace(0, L, n + 1, i - 1)]

\* create_river_mesh: the arrays it builds from river_length and resolution
XRiver(L, n) == [i \in 1..n |-> linspace(0, L, n, i - 1)]
YCenter(xr) == [i \in 1..Len(xr) |-> (50 * np_sin(5 * xr[i])) \div 1000]
RiverWidth1(xr) ==
  [i \in 1..Len(xr) |-> (3000 + 2 * np_sin(3 * xr[i])) * river_width_scale]
YRiver1(m) == [j \in 1..m |-> linspace(-200, 200, m, j - 1)]
YAdjusted(xr, yr) ==
  [j \in 1..Len(yr) |->
     [i \in 1..Len(xr) |->
        LET width_factor == RiverWidth1(xr)[i] \div (2 * river_width_scale)
        IN  (yr[j] * width_factor) \div 100 + YCenter(xr)[i]]]

\* __init__: no parameter is checked; np.linspace raises ValueError for a
\* negative number of samples and accepts 0
MantaroRiverModel(cfg) ==
  /\ program' = "prototipo1"
  /\ cities_data' = cfg.cities
  /\ k' = cfg.k
  /\ river_length' = river_length_1
  /\ resolution' = cfg.resolution
  /\ IF cfg.resolution < 0
       THEN /\ pc' = "error"
            /\ UNCHANGED <<x_river, y_river, y_center, Y_adjusted>>
       ELSE /\ pc' = "ready"
            /\ x_river' = XRiver(river_length_1, cfg.resolution)
            /\ y_river' = YRiver1(cfg.lateral)
            /\ y_center' = YCenter(XRiver(river_length_1, cfg.resolution))
            /\ Y_adjusted' = YAdjusted(XRiver(river_length_1, cfg.resolution),
                                       YRiver1(cfg.lateral))
  /\ ret' = NoRet /\ prev' = NoRet
  /\ UNCHANGED <<funcion_vars, sim_vars, anim_vars, oob, accum>>

\* variants of pollution_function with one slip each
pollution_function_noguard(px, xi, Bi) == Bi * k * np_exp(-(k * (px - xi)))
pollution_function_strict(px, xi, Bi) ==
  IF px <= xi THEN 0 ELSE Bi * k * np_exp(-(k * (px - xi)))
pollution_function_growing(px, xi, Bi) ==
  IF px < xi THEN 0 ELSE Bi * k * np_exp(k * (px - xi))

\* variant: the result is accumulated into the value returned before
pollution_function_accum(px, xi, Bi) ==
  (IF px < xi THEN 0 ELSE Bi * k * np_exp(-(k * (px - xi))))
    + (IF ret.op = "pollution_function" THEN ret.value ELSE 0)

\* pollution_function(x, xi, Bi), identical in prototipo1 and prototipo_final
pollution_function(px, xi, Bi) ==
  IF px < xi THEN 0 ELSE Bi * k * np_exp(-(k * (px - xi)))

\* the lateral factor of cell [j][i]: exp(-(Y_adjusted[j, i] ** 2) / 0.5)
lateral_factor(j, i) == np_exp(-((2 * Y_adjusted[j][i] * Y_adjusted[j][i]) \div 100))

\* variant: active_cities ignored
InActive_all(active, name) == TRUE

\* `city in active_cities`, after the default of line 104-105
InActive(active, name) == IF active.none THEN TRUE ELSE name \in active.list

\* pollution_field after the outer loop has handled the first c cities
RECURSIVE FieldAfter(_, _)
FieldAfter(c, active) ==
  IF c = 0
    THEN [j \in 1..Len(y_river) |-> [i \in 1..Len(x_river) |-> 0]]
    ELSE LET before == FieldAfter(c - 1, active)
             data == cities_data[c]
         IN  IF InActive(active, data.name)
               THEN [j \in 1..Len(y_river) |->
                       [i \in 1..Len(x_river) |->
                          np_add(before[j][i],
                                 MulDiv(pollution_function(x_river[i], data.distance,
                                                           data.waste),
                                        lateral_factor(j, i), ExpScale))]]
               ELSE before

calculate_pollution_field(active) ==
  /\ program = "prototipo1" /\ pc = "ready"
  /\ ret' = [op |-> "calculate_pollution_field", active |-> active,
             value |-> FieldAfter(Len(cities_data), active),
             lateral |-> [j \in 1..Len(y_river) |->
                            [i \in 1..Len(x_river) |-> lateral_factor(j, i)]]]
  /\ UNCHANGED <<program, pc, k, river_length, resolution, cities_data, x_river,
                 y_river, mesh1, prev, funcion_vars, sim_vars, anim_vars, oob, accum>>

\* variant: the cell is overwritten instead of accumulated
Accumulated_overwrite(field, c, i) ==
  [j \in 1..Len(field) |->
     [field[j] EXCEPT ![i] =
        MulDiv(pollution_function(x_river[i], cities_data[c].distance,
                                  cities_data[c].waste),
               lateral_factor(j, i), ExpScale)]]

\* lines 118-124 for one city c and one column i: the loop over j
Accumulated(field, c, i) ==
  [j \in 1..Len(field) |->
     [field[j] EXCEPT ![i] =
        np_add(@, MulDiv(pollution_function(x_river[i], cities_data[c].distance,
                                            cities_data[c].waste),
                         lateral_factor(j, i), ExpScale))]]

\* The loops of lines 107-124 run by workers: worker w runs them over its own
\* columns cols[w], taking the cities in the order `order`.
start_accumulation(active, order, cols) ==
  /\ program = "prototipo1" /\ pc = "ready" /\ ~accum.on
  /\ accum' = [on |-> TRUE, active |-> active, order |-> order, cols |-> cols,
               pos |-> [w \in 1..Len(cols) |-> 0],
               field |-> [j \in 1..Len(y_river) |-> [i \in 1..Len(x_river) |-> 0]]]
  /\ UNCHANGED <<program, pc, k, river_length, resolution, cities_data, x_river,
                 y_river, mesh1, ret, prev, funcion_vars, sim_vars, anim_vars, oob>>

\* one iteration (city, column) of worker w
accumulate(w) ==
  /\ accum.on /\ w \in 1..Len(accum.cols)
  /\ accum.pos[w] < Len(accum.order) * Len(accum.cols[w])
  /\ LET c == accum.order[accum.pos[w] \div Len(accum.cols[w]) + 1]
         i == accum.cols[w][(accum.pos[w] % Len(accum.cols[w])) + 1]
     IN  accum' = [accum EXCEPT
                     !.pos[w] = @ + 1,
                     !.field = IF InActive(accum.active, cities_data[c].name)
                                 THEN Accumulated(@, c, i) ELSE @]
  /\ UNCHANGED <<program, pc, k, river_length, resolution, cities_data, x_river,
                 y_river, mesh1, ret, prev, funcion_vars, sim_vars, anim_vars, oob>>

\* a direct call of pollution_function
call_pollution_function(px, xi, Bi) ==
  /\ program \in {"prototipo1", "prototipo_final"} /\ pc = "ready"
  /\ prev' = ret
  /\ ret' = [op |-> "pollution_function", x |-> px, xi |-> xi, Bi |-> Bi,
             value |-> pollution_function(px, xi, Bi)]
  /\ UNCHANGED <<program, pc, k, river_length, resolution, cities_data, x_river,
                 y_river, mesh1, funcion_vars, sim_vars, anim_vars, oob, accum>>

\* __main__, lines 411-419: the maximum over the lateral samples at each
\* analysis point whose index passes `idx < model.resolution`
analysis_points == <<200, 500, 800, 1000, 1140>>

ColumnMax(field, i) ==
  CHOOSE m \in {field[j][i] : j \in 1..Len(field)} :
    \A j \in 1..Len(field) : field[j][i] <= m

key_point_analysis ==
  /\ program = "prototipo1" /\ pc = "ready"
  /\ \E field \in {FieldAfter(Len(cities_data), [none |-> TRUE, list |-> {}])} :
       ret' = [op |-> "analysis",
               value |-> [n \in {n \in 1..Len(analysis_points) :
                                   (analysis_points[n] * resolution) \div river_length
                                      < resolution} |->
                            ColumnMax(field,
                                      (analysis_points[n] * resolution) \div river_length + 1)]]
  /\ oob' = oob \cup
       {[site |-> "__main__", policy |-> "skip"] :
          n \in {n \in 1..Len(analysis_points) :
                   (analysis_points[n] * resolution) \div river_length >= resolution}}
  /\ UNCHANGED <<program, pc, k, river_length, resolution, cities_data, x_river,
                 y_river, mesh1, prev, funcion_vars, sim_vars, anim_vars, accum>>

\* create_particles: x_start is drawn by np.random.uniform(0, river_length);
\* the draws explored
\* the number of particles whose start position is drawn freely
MaxParticles1 == 2

StartPositions == {0, river_length \div 2, river_length - 20, river_length - 1}

\* line 287: create_particles(50)
n_particles_animation == 50

\* create_particles(count), lines 153-167: the start positions repeat the
\* draws of the first MaxParticles1 particles
create_particles(count) ==
  {[n \in 1..count |-> [x |-> f[((n - 1) % MaxParticles1) + 1], age |-> 0]] :
     f \in [1..MaxParticles1 -> StartPositions]}

\* create_animation_frames, lines 292-301: a particle after one more frame
FrameMoved(px) == IF px + 20 > river_length THEN 0 ELSE px + 20

RECURSIVE FramesMoved(_, _)
FramesMoved(px, n) == IF n = 0 THEN px ELSE FramesMoved(FrameMoved(px), n - 1)

\* variant: a particle that leaves the domain is not restarted
ParticleMoved_noreset(p) == [x |-> p.x + 20, age |-> p.age + 1]

\* lines 292-301: position and age of a particle after one more frame
ParticleMoved(p) ==
  IF p.x + 20 > river_length THEN [x |-> 0, age |-> 0]
                             ELSE [x |-> p.x + 20, age |-> p.age + 1]

\* lines 289-325: the particles of the frames still to be made
RECURSIVE FrameParticles(_, _)
FrameParticles(particles, n) ==
  IF n = 0 THEN <<>>
  ELSE CHOOSE r \in {<<moved>> \o FrameParticles(moved, n - 1) :
                       moved \in {[i \in 1..Len(particles) |-> ParticleMoved(particles[i])]}} : TRUE

\* create_animation_frames(n_frames) on `count` particles: the particles are
\* local to the call; the value kept is their final positions, with the
\* particles created and those of each frame
create_animation_frames(count, frames) ==
  /\ program = "prototipo1" /\ pc = "ready"
  /\ \E particles \in create_particles(count) :
       ret' = [op |-> "create_animation_frames", n_frames |-> frames,
               value |-> [n \in 1..count |-> FramesMoved(particles[n].x, frames)],
               created |-> particles,
               frame_particles |-> FrameParticles(particles, frames)]
  /\ UNCHANGED <<program, pc, k, river_length, resolution, cities_data, x_river,
                 y_river, mesh1, prev, funcion_vars, sim_vars, anim_vars, oob, accum>>

(***************************************************************************)
(* prototipo_final.py : MantaroRiverAnimation                              *)
(* A particle is [id, x, age, source_city, size, Bi, xi, opacity]; its     *)
(* lateral position y (which carries np.random noise), z and color are     *)
(* read by the renderer only and are left out.  size is in 1/ConcUnit,     *)
(* opacity in 1/OpacityUnit.                                               *)
(***************************************************************************)
CitiesFinal ==
  << [name |-> "Yauli (La Oroya)", distance |-> 0,    waste |-> 271,  y_pos |-> 0],
     [name |-> "Jauja",            distance |-> 530,  waste |-> 105,  y_pos |-> 0],
     [name |-> "Concepcion",       distance |-> 810,  waste |-> 388,  y_pos |-> 0],
     [name |-> "Huancayo",         distance |-> 1030, waste |-> 3825, y_pos |-> 0],
     [name |-> "Chupaca",          distance |-> 1140, waste |-> 189,  y_pos |-> 0] >>

river_length_final == 1440
resolution_final == 200
animation_speed == 20
n_frames == 60
max_particles == 200
max_age == 100

ConcUnit == 100 * ExpScale
OpacityUnit == 10 * ExpScale

\* the sample index int(d * resolution / river_length) of a distance d >= 0
SampleIndex(d) == (d * resolution) \div river_length

\* create_river_path: the arrays
YRiverFinal(xr) ==
  [i \in 1..Len(xr) |->
     (800 * np_sin(2 * xr[i]) + 300 * np_sin(5 * xr[i] + 239)
        + 150 * np_sin(10 * xr[i] + 477)) \div 1000]
ZRiverFinal(xr) == [i \in 1..Len(xr) |-> 37000 - (52 * xr[i]) \div 10]
\* variant: the width oscillates with the amplitude of its mean
RiverWidthFinal_deep(xr) == [i \in 1..Len(xr) |-> 80 + (80 * np_sin(3 * xr[i])) \div 1000]

RiverWidthFinal(xr) == [i \in 1..Len(xr) |-> 80 + (40 * np_sin(3 * xr[i])) \div 1000]

\* create_river_path, lines 60-68: the index a city is placed at (-1: none)
PlacementIndex(d, res, L, n) ==
  LET idx == (d * res) \div L IN IF idx >= n THEN n - 1 ELSE idx

\* lines 64-66: the indexes y_river and z_river are read at
PathReads(cities, res, L, n) ==
  {[site |-> "create_river_path", idx |-> PlacementIndex(cities[c].distance, res, L, n)] :
     c \in {c \in 1..Len(cities) : PlacementIndex(cities[c].distance, res, L, n) >= 0}}

PlaceCity(data, res, L, yr, zr) ==
  LET idx == PlacementIndex(data.distance, res, L, Len(yr))
  IN  IF idx >= 0
        THEN [name |-> data.name, distance |-> data.distance, waste |-> data.waste,
              y_pos |-> yr[idx + 1], z_pos |-> zr[idx + 1] + 200]
        ELSE data

\* __init__ and create_river_path: no parameter is checked
MantaroRiverAnimation(cfg) ==
  /\ program' = "prototipo_final"
  /\ river_length' = cfg.river_length
  /\ k' = cfg.k
  /\ resolution' = cfg.resolution
  /\ IF cfg.resolution < 0
       THEN /\ pc' = "error"
            /\ cities_data' = cfg.cities
            /\ indexed' = {}
            /\ UNCHANGED <<x_river, y_river, z_river, river_width, oob>>
       ELSE LET xr == XRiver(cfg.river_length, cfg.resolution)
                yr == YRiverFinal(xr)
                zr == ZRiverFinal(xr)
            IN  /\ pc' = "ready"
                /\ indexed' = PathReads(cfg.cities, cfg.resolution, cfg.river_length, Len(yr))
                /\ x_river' = xr /\ y_river' = yr /\ z_river' = zr
                /\ river_width' = RiverWidthFinal(xr)
                /\ cities_data' =
                     [c \in 1..Len(cfg.cities) |->
                        PlaceCity(cfg.cities[c], cfg.resolution, cfg.river_length, yr, zr)]
                /\ oob' = oob \cup
                     {[site |-> "create_river_path",
                       policy |-> IF Len(yr) = 0 THEN "skip" ELSE "clamp"] :
                        c \in {c \in 1..Len(cfg.cities) :
                                 (cfg.cities[c].distance * cfg.resolution)
                                    \div cfg.river_length >= Len(yr)}}
  /\ waste_particles' = <<>>
  /\ particle_id' = 0
  /\ step' = 0
  /\ created' = [n \in CityNames(cfg.cities) |-> 0]
  /\ fp_invalid' = FALSE
  /\ shown' = [frame_0 |-> {}, initial |-> {}]
  /\ ret' = NoRet /\ prev' = NoRet
  /\ UNCHANGED <<mesh1, funcion_vars, sim_vars, accum>>

\* create_river_surface: the rows <<x, y, z>> of the two banks
create_river_surface ==
  /\ program = "prototipo_final" /\ pc = "ready"
  /\ ret' = [op |-> "create_river_surface",
             left_bank |-> [i \in 1..Len(x_river) |->
                              <<x_river[i], y_river[i] - river_width[i], z_river[i]>>],
             right_bank |-> [i \in 1..Len(x_river) |->
                               <<x_river[i], y_river[i] + river_width[i], z_river[i]>>]]
  /\ UNCHANGED <<program, pc, k, river_length, resolution, cities_data, x_river,
                 y_river, mesh1, prev, funcion_vars, sim_vars, anim_vars, oob, accum>>

\* n_particles for a city (lines 97-102 and 172-177)
NParticles(data) ==
  IF data.name = "Huancayo"
    THEN Min(10, Max(1, RoundHalfEven(data.waste, 400)))
    ELSE Max(1, RoundHalfEven(data.waste, 30))

\* the position of the i-th particle of a city (lines 106-109)
ParticleX(city_x, i) == IF city_x - i * 5 < 0 THEN city_x ELSE city_x - i * 5

\* the particles one city appends (lines 105-126 and 180-201) for the loop
\* values i, i+1, ..: those whose index passes `idx < len(self.y_river)`
CityParticles(data, i, id0, size) ==
  LET passing == SelectSeq([j \in 1..Max(0, NParticles(data) - i) |-> i + j - 1],
                           LAMBDA v : SampleIndex(ParticleX(data.distance, v)) < Len(y_river))
  IN  [n \in 1..Len(passing) |->
         [id |-> id0 + n - 1, x |-> ParticleX(data.distance, passing[n]), age |-> 0,
          source_city |-> data.name, size |-> size, Bi |-> data.waste,
          xi |-> data.distance, opacity |-> OpacityUnit]]

\* lines 110-116 and 185-191: the indexes read for the particles of the cities
\* selected by `sel`
EmitReads(sel, site) ==
  {[site |-> site, idx |-> SampleIndex(ParticleX(cities_data[ci[1]].distance, ci[2]))] :
     ci \in {ci \in UNION {{<<c, i>> : i \in 0..(NParticles(cities_data[c]) - 1)} :
                              c \in {c \in 1..Len(cities_data) : sel[c]}} :
               SampleIndex(ParticleX(cities_data[ci[1]].distance, ci[2])) < Len(y_river)}}

\* one city's particles appended to the list (acc: list, next id, history).
\* CHOOSE over a singleton only names an intermediate value.
Appended(data, size, acc) ==
  CHOOSE r \in {[list |-> acc.list \o new,
                 next |-> acc.next + Len(new),
                 made |-> [acc.made EXCEPT ![data.name] = @ + Len(new)],
                 dropped |-> acc.dropped \/ Len(new) < NParticles(data)] :
                  new \in {CityParticles(data, 0, acc.next, size)}} : TRUE

\* the loop over cities_data, from city c on, for the cities selected by
\* `sel`; `sizes` gives the particle_size of <<Huancayo, the others>>
RECURSIVE AppendCities(_, _, _, _)
AppendCities(c, sel, sizes, acc) ==
  IF c > Len(cities_data) THEN acc
  ELSE IF ~sel[c] THEN AppendCities(c + 1, sel, sizes, acc)
  ELSE CHOOSE r \in
         {AppendCities(c + 1, sel, sizes, a) :
            a \in {Appended(cities_data[c],
                            IF cities_data[c].name = "Huancayo" THEN sizes[1] ELSE sizes[2],
                            acc)}} : TRUE

\* variant: a tolerance of 4 km
NearFront_wide(current_x) ==
  [c \in 1..Len(cities_data) |-> Abs(current_x - cities_data[c].distance) < 40]

\* add_waste_particles(current_x, frame): the cities the water front is passing
NearFront(current_x) ==
  [c \in 1..Len(cities_data) |-> Abs(current_x - cities_data[c].distance) < 20]

\* variant: the age of a particle is not counted
Advanced_noage(p) == [p EXCEPT !.x = @ + (animation_speed * 8) \div 10]

\* update_particles, lines 133-134: the particle moved downstream
Advanced(p) == [p EXCEPT !.x = @ + (animation_speed * 8) \div 10, !.age = @ + 1]

\* lines 143-144: Cx of an advanced particle
Cx(q) == q.Bi * k * np_exp(-(k * (q.x - q.xi)))

\* Cx / particle['Bi']; 0/0 is nan, which max(0.7, nan) discards
CxOverBi(cx, Bi) == IF Bi = 0 THEN 0 ELSE cx \div Bi

\* lines 146-150: size and opacity from Cx
Resized(q, cx) ==
  [q EXCEPT
     !.size = IF q.source_city = "Huancayo"
                THEN Max(1 * ConcUnit, cx \div 2)
                ELSE Max(20 * ConcUnit, cx * 4),
     !.opacity = IF q.source_city # "Huancayo"
                   THEN Min(OpacityUnit, Max(7 * ExpScale, CxOverBi(cx, q.Bi)))
                   ELSE Min(OpacityUnit, Max(1 * ExpScale, CxOverBi(cx, q.Bi)))]

\* variant: particles that leave the domain are kept
Removed_nodomain(q, cx) == cx * 10 <= ConcUnit \/ q.age > max_age

\* lines 151-156: the advanced particle is put in particles_to_remove
Removed(q, cx) == cx * 10 <= ConcUnit \/ q.x > river_length \/ q.age > max_age

\* lines 131-156 for one particle: the updated particle and whether its
\* index is put in particles_to_remove
UpdateOne(p) ==
  CHOOSE r \in {[particle |-> Resized(qc[1], qc[2]), remove |-> Removed(qc[1], qc[2])] :
                  qc \in {<<Advanced(p), Cx(Advanced(p))>>}} : TRUE

\* update_particles: every particle updated, then the marked ones popped
update_particles(particles) ==
  CHOOSE r \in {[n \in 1..Len(kept) |-> kept[n].particle] :
                  kept \in {SelectSeq([n \in 1..Len(particles) |-> UpdateOne(particles[n])],
                                      LAMBDA u : ~u.remove)}} : TRUE

\* variant: the index is read without the tests of lines 136 and 138
UpdateReads_unguarded(particles) ==
  {[site |-> "update_particles", idx |-> SampleIndex(Advanced(particles[n]).x)] :
     n \in 1..Len(particles)}

\* lines 136-141: the indexes read for the advanced particles
UpdateReads(particles) ==
  {[site |-> "update_particles", idx |-> SampleIndex(Advanced(particles[n]).x)] :
     n \in {n \in 1..Len(particles) :
              /\ Advanced(particles[n]).x < river_length
              /\ SampleIndex(Advanced(particles[n]).x) < Len(y_river)}}

\* lines 290-294 and 323-329: the indexes read to draw the particles and the
\* water front
FrameReads(particles, current_x) ==
  {[site |-> "create_frame", idx |-> SampleIndex(particles[n].x)] :
     n \in {n \in 1..Len(particles) : SampleIndex(particles[n].x) < Len(y_river)}}
  \cup (IF current_x <= river_length /\ SampleIndex(current_x) < Len(y_river)
          THEN {[site |-> "create_frame", idx |-> SampleIndex(current_x)]} ELSE {})

\* update_particles() called on the object
call_update_particles ==
  /\ program = "prototipo_final" /\ pc = "ready"
  /\ waste_particles' = update_particles(waste_particles)
  /\ fp_invalid' = (fp_invalid \/ \E n \in 1..Len(waste_particles) : waste_particles[n].Bi = 0)
  /\ ret' = [op |-> "update_particles"]
  /\ indexed' = indexed \cup UpdateReads(waste_particles)
  /\ UNCHANGED <<program, pc, k, river_length, resolution, cities_data, x_river,
                 y_river, mesh1, prev, funcion_vars, sim_vars, z_river, river_width, particle_id,
                 step, created, shown, oob, accum>>

\* variant: the first 200 particles are kept
Capped_oldest(particles) ==
  IF Len(particles) > max_particles THEN SubSeq(particles, 1, max_particles) ELSE particles

\* lines 203-204
Capped(particles) ==
  IF Len(particles) > max_particles
    THEN SubSeq(particles, Len(particles) - max_particles + 1, Len(particles))
    ELSE particles

\* create_frame(frame_num): the particle bookkeeping and the index lookups of
\* the rendering (lines 284-294 and 323-325)
create_frame(frame_num) ==
  LET current_x == frame_num * animation_speed
      start == [list |-> waste_particles, next |-> particle_id, made |-> created,
                dropped |-> FALSE]
  IN
  \E added \in {AppendCities(1, NearFront(current_x),
                             <<ConcUnit \div 2, 40 * ConcUnit>>, start)} :
  \E looped \in {IF frame_num % 10 = 0
                   THEN AppendCities(1, [c \in 1..Len(cities_data) |-> TRUE],
                                     <<18 * ConcUnit, 80 * ConcUnit>>, added)
                   ELSE added} :
  \E capped \in {Capped(looped.list)} :
  \E after \in {update_particles(capped)} :
      /\ waste_particles' = after
      /\ particle_id' = looped.next
      /\ created' = looped.made
      /\ indexed' = indexed
           \cup EmitReads(NearFront(current_x), "add_waste_particles")
           \cup (IF frame_num % 10 = 0
                   THEN EmitReads([c \in 1..Len(cities_data) |-> TRUE], "create_frame")
                   ELSE {})
           \cup UpdateReads(capped)
           \cup FrameReads(after, current_x)
      /\ fp_invalid' = (fp_invalid \/ \E n \in 1..Len(capped) : capped[n].Bi = 0)
      /\ oob' = oob
           \cup (IF looped.dropped
                   THEN {[site |-> "add_waste_particles", policy |-> "skip"]} ELSE {})
           \cup (IF \E n \in 1..Len(after) : SampleIndex(after[n].x) >= Len(y_river)
                   THEN {[site |-> "create_frame", policy |-> "skip"]} ELSE {})
           \cup (IF current_x <= river_length /\ SampleIndex(current_x) >= Len(y_river)
                   THEN {[site |-> "create_frame", policy |-> "skip"]} ELSE {})

\* lines 284-304: what a frame draws of the particles whose sample index is
\* in range (position, size, opacity, by city)
Drawn(particles) ==
  {[x |-> x_river[SampleIndex(particles[n].x) + 1], size |-> particles[n].size,
    opacity |-> particles[n].opacity, source_city |-> particles[n].source_city] :
      n \in {n \in 1..Len(particles) : SampleIndex(particles[n].x) < Len(y_river)}}

\* variant: the lateral positions of the path are shifted with the particles
create_animation_repath ==
  /\ program = "prototipo_final" /\ pc = "ready"
  /\ step <= n_frames
  /\ create_frame(IF step < n_frames THEN step ELSE 0)
  /\ step' = step + 1
  /\ shown' = IF step = 0 THEN [shown EXCEPT !.frame_0 = Drawn(waste_particles')]
              ELSE IF step = n_frames THEN [shown EXCEPT !.initial = Drawn(waste_particles')]
              ELSE shown
  /\ y_river' = [i \in 1..Len(y_river) |-> y_river[i] + 1]
  /\ UNCHANGED <<program, pc, k, river_length, resolution, cities_data, x_river,
                 mesh1, ret, prev, funcion_vars, sim_vars, z_river, river_width, accum>>

\* create_animation: create_frame(0) .. create_frame(n_frames - 1), then the
\* initial traces with a second create_frame(0)
create_animation ==
  /\ program = "prototipo_final" /\ pc = "ready"
  /\ step <= n_frames
  /\ create_frame(IF step < n_frames THEN step ELSE 0)
  /\ step' = step + 1
  /\ shown' = IF step = 0 THEN [shown EXCEPT !.frame_0 = Drawn(waste_particles')]
              ELSE IF step = n_frames THEN [shown EXCEPT !.initial = Drawn(waste_particles')]
              ELSE shown
  /\ UNCHANGED <<program, pc, k, river_length, resolution, cities_data, x_river,
                 y_river, mesh1, ret, prev, funcion_vars, sim_vars, z_river, river_width, accum>>

(***************************************************************************)
(* funcion.py                                                              *)
(***************************************************************************)
puntos ==
  << [name |-> "La Oroya", x_i |-> 0,   B |-> 15],
     [name |-> "El Tambo", x_i |-> 500, B |-> 1500],
     [name |-> "Chilca",   x_i |-> 550, B |-> 500],
     [name |-> "Huancayo", x_i |-> 580, B |-> 1200] >>

k_funcion == 1
n_samples == 1000

H(d) == IF d >= 0 THEN 1 ELSE 0

\* B * k * np.exp(-k * (x - x_i)) * H(x - x_i) at one sample
Term(px, x_i, B) == B * k * (np_exp(-(k * (px - x_i))) * H(px - x_i))

\* the state of the script before its loop
FuncionStart ==
  /\ program = "funcion" /\ pc = "ready"
  /\ k = k_funcion
  /\ x = [j \in 1..n_samples |-> linspace(0, 1000, n_samples, j - 1)]
  /\ C_total = [j \in 1..n_samples |-> 0]
  /\ C_i = <<>>
  /\ fi = 0
  /\ river_length = 0 /\ resolution = 0 /\ cities_data = <<>>
  /\ x_river = <<>> /\ y_river = <<>> /\ y_center = <<>> /\ Y_adjusted = <<>>
  /\ ret = NoRet /\ prev = NoRet
  /\ z_river = <<>> /\ river_width = <<>> /\ waste_particles = <<>> /\ particle_id = 0
  /\ step = 0 /\ oob = {} /\ created = <<>> /\ fp_invalid = FALSE
  /\ accum = [on |-> FALSE] /\ shown = [frame_0 |-> {}, initial |-> {}]
  /\ indexed = {}
  /\ particulas = <<>> /\ zona = <<>> /\ kg_basura = [kind |-> "unset"] /\ prompts = 0
  /\ entered = [kind |-> "nothing"] /\ frame = 0 /\ tiempo = 0

\* one iteration of `for nombre, datos in puntos.items()`
FuncionLoop ==
  /\ program = "funcion" /\ fi < Len(puntos)
  /\ LET datos == puntos[fi + 1]
         Ci == [j \in 1..Len(x) |-> Term(x[j], datos.x_i, datos.B)]
     IN  /\ C_i' = Ci
         /\ C_total' = [j \in 1..Len(x) |-> np_add(C_total[j], Ci[j])]
  /\ fi' = fi + 1
  /\ UNCHANGED <<program, pc, k, river_length, resolution, cities_data, x_river,
                 y_river, mesh1, ret, prev, x, anim_vars, oob, accum, sim_vars>>

(***************************************************************************)
(* prototipo3.py                                                           *)
(***************************************************************************)
MaxPrompts == 5
MaxFrames == 2

longitud_rio == 150
puntos_cauce == 300
max_particulas == 1000
max_por_zona == 200
frames_entre_basura == 50

\* len(self.cauce_x): t_smooth has puntos_cauce * 2 points (line 59)
cauce_len == puntos_cauce * 2

\* a text is the sequence of its characters
LaOroya == <<"L", "a", " ", "O", "r", "o", "y", "a">>
ElTambo == <<"E", "l", " ", "T", "a", "m", "b", "o">>
Chilca == <<"C", "h", "i", "l", "c", "a">>
Huancayo == <<"H", "u", "a", "n", "c", "a", "y", "o">>

\* self.zonas; factor_contaminacion in tenths
zonas ==
  << [name |-> LaOroya,  inicio |-> 0,   fin |-> 25,  factor_contaminacion |-> 15],
     [name |-> ElTambo,  inicio |-> 40,  fin |-> 70,  factor_contaminacion |-> 12],
     [name |-> Chilca,   inicio |-> 80,  fin |-> 100, factor_contaminacion |-> 10],
     [name |-> Huancayo, inicio |-> 110, fin |-> 140, factor_contaminacion |-> 13] >>

ZoneKeys == {zonas[z].name : z \in 1..Len(zonas)}
zona_info(name) == CHOOSE z \in {zonas[i] : i \in 1..Len(zonas)} : z.name = name

\* str.strip(): the text without its leading and trailing blanks
strip(text) ==
  LET solid == {i \in 1..Len(text) : text[i] # " "}
  IN  IF solid = {} THEN <<>>
      ELSE SubSeq(text, CHOOSE i \in solid : \A j \in solid : i <= j,
                        CHOOSE i \in solid : \A j \in solid : i >= j)

Digits == {"0", "1", "2", "3", "4", "5", "6", "7", "8", "9"}
DigitValue ==
  ("0" :> 0) @@ ("1" :> 1) @@ ("2" :> 2) @@ ("3" :> 3) @@ ("4" :> 4) @@
  ("5" :> 5) @@ ("6" :> 6) @@ ("7" :> 7) @@ ("8" :> 8) @@ ("9" :> 9)

RECURSIVE DecimalValue(_)
DecimalValue(ds) ==
  IF ds = <<>> THEN 0
  ELSE 10 * DecimalValue(SubSeq(ds, 1, Len(ds) - 1)) + DigitValue[ds[Len(ds)]]

\* float(text) for texts of digits, ".", signs, blanks and lower-case letters:
\* blanks are stripped, a sign is optional, then come "inf", "nan" or digits
\* with at most one "."; the number is num / den
float(text) ==
  LET s == strip(text)
      signed == s # <<>> /\ s[1] \in {"+", "-"}
      neg == signed /\ s[1] = "-"
      body == IF signed THEN Tail(s) ELSE s
      dots == {i \in 1..Len(body) : body[i] = "."}
      digits == SelectSeq(body, LAMBDA c : c \in Digits)
  IN  IF body = <<"i", "n", "f">> THEN [kind |-> "inf", neg |-> neg, num |-> 0, den |-> 1]
      ELSE IF body = <<"n", "a", "n">> THEN [kind |-> "nan", neg |-> neg, num |-> 0, den |-> 1]
      ELSE IF /\ \A i \in 1..Len(body) : body[i] \in Digits \cup {"."}
              /\ Cardinality(dots) <= 1
              /\ digits # <<>>
        THEN [kind |-> "number", neg |-> neg, num |-> DecimalValue(digits),
              den |-> IF dots = {} THEN 1 ELSE 10 ^ (Len(body) - (CHOOSE i \in dots : TRUE))]
        ELSE [kind |-> "ValueError", neg |-> FALSE, num |-> 0, den |-> 1]

\* variant: zero is accepted
positive_or_zero(v) ==
  \/ v.kind = "inf" /\ ~v.neg
  \/ v.kind = "number" /\ (~v.neg \/ v.num = 0)

\* line 320: kg_basura > 0
positive(v) ==
  \/ v.kind = "inf" /\ ~v.neg
  \/ v.kind = "number" /\ ~v.neg /\ v.num > 0

\* int((km / self.longitud_rio) * len(self.cauce_x)), lines 125-126; the float
\* product for 110 km is 439.99999999999994
cauce_index(km) == IF km = 110 THEN 439 ELSE (km * cauce_len) \div longitud_rio

\* the random draws of crear_particula: the index in the zone (line 129) and
\* the factor of the speed in hundredths (line 164), at their extremes
Draws(name) ==
  [idx : {cauce_index(zona_info(name).inicio),
          Min(cauce_index(zona_info(name).fin), cauce_len - 1)},
   u : {50, 150}]

\* crear_particula: idx_cauce and velocidad in thousandths of an index
crear_particula(name, v, draw) ==
  [idx_cauce |-> draw.idx * 1000,
   velocidad |-> draw.u * zona_info(name).factor_contaminacion,
   color |-> IF v.num * 10 > 8000 * v.den THEN "red"
             ELSE IF v.num * 10 > 5000 * v.den THEN "orange"
             ELSE IF v.num * 10 > 2000 * v.den THEN "yellow"
             ELSE "lightgreen",
   zona |-> name]

\* agregar_basura on the list `list`, for a finite kg_basura; the particles
\* of one call share their random draws
agregar_basura(list, name, v, draw) ==
  LET num_particulas == Min((IF v.neg THEN 0 ELSE v.num \div (v.den * 10)), max_por_zona)
      made == Min(num_particulas, Max(0, max_particulas - Len(list)))
  IN  list \o [i \in 1..made |-> crear_particula(name, v, draw)]

\* actualizar_particulas: the particles moved, without those that left
actualizar_particulas(list) ==
  SelectSeq([i \in 1..Len(list) |->
               [list[i] EXCEPT !.idx_cauce = @ + list[i].velocidad]],
            LAMBDA q : q.idx_cauce < (cauce_len - 1) * 1000)

model_vars ==
  <<program, k, river_length, resolution, cities_data, x_river, y_river, mesh1, ret,
    prev, funcion_vars, anim_vars, oob, accum>>

\* RioMantaroSimulator() and ejecutar_simulacion up to its first input()
ejecutar_simulacion ==
  /\ program = "prototipo3" /\ pc = "new"
  /\ particulas' = <<>>
  /\ tiempo' = 0
  /\ prompts' = 1
  /\ pc' = "zone_prompt"
  /\ UNCHANGED <<zona, kg_basura, entered, frame, model_vars>>

\* lines 309-314: a text is entered at the zone prompt
zone_input(text) ==
  /\ program = "prototipo3" /\ pc = "zone_prompt" /\ prompts < MaxPrompts
  /\ entered' = [kind |-> "text", text |-> text]
  /\ zona' = strip(text)
  /\ pc' = IF strip(text) \in ZoneKeys THEN "kg_prompt" ELSE "zone_prompt"
  /\ prompts' = prompts + 1
  /\ UNCHANGED <<particulas, kg_basura, frame, tiempo, model_vars>>

\* lines 315-316: KeyboardInterrupt at the zone prompt
zone_interrupt ==
  /\ program = "prototipo3" /\ pc = "zone_prompt"
  /\ entered' = [kind |-> "interrupt"]
  /\ pc' = "returned"
  /\ UNCHANGED <<particulas, zona, kg_basura, prompts, frame, tiempo, model_vars>>

\* EOFError of input() is caught by neither loop
input_eof ==
  /\ program = "prototipo3" /\ pc \in {"zone_prompt", "kg_prompt"}
  /\ entered' = [kind |-> "eof"]
  /\ pc' = "raised"
  /\ UNCHANGED <<particulas, zona, kg_basura, prompts, frame, tiempo, model_vars>>

\* lines 318-341: a text is entered at the kg prompt; an accepted value adds
\* the waste and starts the animation, int(inf / 10) raises OverflowError
kg_input(text) ==
  /\ program = "prototipo3" /\ pc = "kg_prompt" /\ prompts < MaxPrompts
  /\ entered' = [kind |-> "text", text |-> text]
  /\ \E v \in {float(text)} :
       IF v.kind = "ValueError"
         THEN /\ prompts' = prompts + 1
              /\ UNCHANGED <<pc, kg_basura, particulas>>
       ELSE /\ kg_basura' = v
            /\ IF ~positive(v)
                 THEN /\ prompts' = prompts + 1
                      /\ UNCHANGED <<pc, particulas>>
               ELSE IF v.kind = "inf"
                 THEN /\ pc' = "raised"
                      /\ UNCHANGED <<prompts, particulas>>
               ELSE /\ \E draw \in Draws(zona) :
                         particulas' = agregar_basura(particulas, zona, v, draw)
                    /\ pc' = "animating"
                    /\ UNCHANGED prompts
  /\ UNCHANGED <<zona, frame, tiempo, model_vars>>

\* lines 323-324: KeyboardInterrupt at the kg prompt is answered like a
\* text that is no number
kg_interrupt ==
  /\ program = "prototipo3" /\ pc = "kg_prompt" /\ prompts < MaxPrompts
  /\ entered' = [kind |-> "interrupt"]
  /\ prompts' = prompts + 1
  /\ UNCHANGED <<pc, particulas, zona, kg_basura, frame, tiempo, model_vars>>

\* animar(frame), called by FuncAnimation with frame = 0, 1, ..;
\* self.pausado is never set
animar ==
  /\ program = "prototipo3" /\ pc = "animating" /\ frame < MaxFrames
  /\ tiempo' = tiempo + 1
  /\ \E moved \in {actualizar_particulas(particulas)} :
       IF frame % frames_entre_basura = 0
         THEN \E name \in ZoneKeys, kg \in {100, 500} : \E draw \in Draws(name) :
                particulas' = agregar_basura(moved, name,
                                [kind |-> "number", neg |-> FALSE, num |-> kg, den |-> 1],
                                draw)
         ELSE particulas' = moved
  /\ frame' = frame + 1
  /\ UNCHANGED <<pc, zona, kg_basura, prompts, entered, model_vars>>

\* what the user may type
ZoneTexts ==
  {LaOroya, <<" ">> \o Chilca \o <<" ">>, Huancayo, <<>>, <<"L", "a">>,
   <<"c", "h", "i", "l", "c", "a">>}
KgTexts ==
  {<<"5">>, <<"5", "0">>, <<"2", "5", "0", "0", ".", "5">>, <<" ", "+", "7", "5", " ">>,
   <<"0">>, <<"0", ".", "0">>, <<"-", "5">>, <<"a", "b", "c">>, <<>>,
   <<"1", ".", "2", ".", "3">>, <<"n", "a", "n">>, <<"i", "n", "f">>}

(***************************************************************************)
(* Specifications                                                          *)
(***************************************************************************)
Blank ==
  /\ k = 0 /\ river_length = 0 /\ resolution = 0 /\ cities_data = <<>>
  /\ x_river = <<>> /\ y_river = <<>> /\ y_center = <<>> /\ Y_adjusted = <<>>
  /\ ret = NoRet /\ prev = NoRet
  /\ x = <<>> /\ C_i = <<>> /\ C_total = <<>> /\ fi = 0
  /\ z_river = <<>> /\ river_width = <<>> /\ waste_particles = <<>> /\ particle_id = 0
  /\ step = 0 /\ oob = {} /\ created = <<>> /\ fp_invalid = FALSE
  /\ accum = [on |-> FALSE] /\ shown = [frame_0 |-> {}, initial |-> {}]
  /\ indexed = {}
  /\ particulas = <<>> /\ zona = <<>> /\ kg_basura = [kind |-> "unset"] /\ prompts = 0
  /\ entered = [kind |-> "nothing"] /\ frame = 0 /\ tiempo = 0

\* a script about to construct its model object
NotConstructed(P) == pc = "new" /\ program \in P /\ Blank

\* one city's rate replaced by 0, or none
ZeroRateVariants(cities) ==
  {cities} \cup {WithWaste(cities, {n}, 0) : n \in {"Jauja", "Huancayo"}}

\* the parameters the data model allows: k > 0, rate >= 0, sample counts > 0
ValidConfigs1 ==
  [k : 1..MaxK, resolution : 1..MaxRes, lateral : 1..MaxLat,
   cities : ZeroRateVariants(Cities1)]

ValidConfigsFinal ==
  [k : 1..MaxK, resolution : {resolution_final},
   river_length : {river_length_1, river_length_final},
   cities : ZeroRateVariants(CitiesFinal)]

ActiveChoices ==
  {[none |-> TRUE, list |-> {}]}
    \cup {[none |-> FALSE, list |-> S] : S \in SUBSET CityNames(Cities1)}
    \cup {[none |-> FALSE, list |-> {"Lima", "Jauja"}]}

Construct1(configs) ==
  \E cfg \in configs : pc = "new" /\ program = "prototipo1" /\ MantaroRiverModel(cfg)
ConstructFinal(configs) ==
  \E cfg \in configs : pc = "new" /\ program = "prototipo_final" /\ MantaroRiverAnimation(cfg)

\* the 2-D field of prototipo1 and the profile of funcion.py
InitField == NotConstructed({"prototipo1"}) \/ FuncionStart
NextField ==
  \/ Construct1(ValidConfigs1)
  \/ \E active \in ActiveChoices : calculate_pollution_field(active)
  \/ key_point_analysis
  \/ FuncionLoop
SpecField == InitField /\ [][NextField]_vars

\* the animation of prototipo_final
InitAnim == NotConstructed({"prototipo_final"})
NextAnim ==
  \/ ConstructFinal(ValidConfigsFinal)
  \/ create_animation
SpecAnim == InitAnim /\ [][NextAnim]_vars

\* direct calls of pollution_function on a constructed object, and funcion.py
FnConfigs1 ==
  [k : 1..MaxK, resolution : {1}, lateral : {1}, cities : {Cities1}]
FnConfigsFinal ==
  [k : 1..MaxK, resolution : {resolution_final}, river_length : {river_length_final},
   cities : {CitiesFinal}]
QueryPositions == {PosStep * n : n \in 0..MaxPos}
SourcePositions == {0, 2 * PosStep}
Rates == {0, 15, 3825}

InitFn == NotConstructed({"prototipo1", "prototipo_final"}) \/ FuncionStart
NextFn ==
  \/ Construct1(FnConfigs1)
  \/ ConstructFinal(FnConfigsFinal)
  \/ \E px \in QueryPositions, xi \in SourcePositions, Bi \in Rates :
        call_pollution_function(px, xi, Bi)
  \/ FuncionLoop
SpecFn == InitFn /\ [][NextFn]_vars

\* construction with parameters outside the data model, then direct calls
AnyConfigs1 ==
  [k : (-1)..MaxK, resolution : (-1)..MaxRes, lateral : 1..MaxLat,
   cities : {Cities1, WithWaste(Cities1, {"Jauja"}, -10)}]
AnyConfigsFinal ==
  [k : (-1)..MaxK, resolution : {-1, 0, resolution_final},
   river_length : {river_length_final},
   cities : {CitiesFinal, WithWaste(CitiesFinal, {"Jauja"}, -10)}]

InitUnchecked == NotConstructed({"prototipo1", "prototipo_final"})
NextUnchecked ==
  \/ Construct1(AnyConfigs1)
  \/ ConstructFinal(AnyConfigsFinal)
  \/ \E px \in {0, PosStep} : call_pollution_function(px, 0, 15)
SpecUnchecked == InitUnchecked /\ [][NextUnchecked]_vars

\* evaluations interleaved with each other and with the other operations
PureConfigs1 ==
  [k : {MaxK}, resolution : {MaxRes}, lateral : {MaxLat}, cities : {Cities1}]
PureConfigsFinal ==
  [k : {MaxK}, resolution : {resolution_final}, river_length : {river_length_final},
   cities : {CitiesFinal}]
PureActive ==
  {[none |-> TRUE, list |-> {}], [none |-> FALSE, list |-> {"Jauja"}],
   [none |-> FALSE, list |-> {"Jauja", "Huancayo"}]}

InitPure == NotConstructed({"prototipo1", "prototipo_final"})
NextPure ==
  \/ Construct1(PureConfigs1)
  \/ ConstructFinal(PureConfigsFinal)
  \/ \E px \in {0, PosStep}, Bi \in {15, 3825} : call_pollution_function(px, 0, Bi)
  \/ \E active \in PureActive : calculate_pollution_field(active)
  \/ key_point_analysis
  \/ create_animation
SpecPure == InitPure /\ [][NextPure]_vars

\* the accumulation split between two workers
WorkerConfigs1 ==
  [k : {MaxK}, resolution : {MaxRes}, lateral : {MaxLat}, cities : {Cities1}]
SourceOrders(n) ==
  {[c \in 1..n |-> c], [c \in 1..n |-> n + 1 - c], [c \in 1..n |-> (c % n) + 1]}
ColumnSplits(n) ==
  {<<SelectSeq([i \in 1..n |-> i], LAMBDA i : i \in S),
     SelectSeq([i \in 1..n |-> i], LAMBDA i : i \notin S)>> : S \in SUBSET (1..n)}

InitWorkers == NotConstructed({"prototipo1"})
NextWorkers ==
  \/ Construct1(WorkerConfigs1)
  \/ \E active \in PureActive, order \in SourceOrders(Len(cities_data)),
        cols \in ColumnSplits(Len(x_river)) : start_accumulation(active, order, cols)
  \/ \E w \in 1..2 : accumulate(w)
SpecWorkers == InitWorkers /\ [][NextWorkers]_vars

\* every operation that runs on a constructed object
FrameCounts == {1, 20}

InitFrame == NotConstructed({"prototipo1", "prototipo_final"})
NextFrame ==
  \/ Construct1(ValidConfigs1)
  \/ ConstructFinal(ValidConfigsFinal)
  \/ \E active \in PureActive : calculate_pollution_field(active)
  \/ \E frames \in FrameCounts : create_animation_frames(MaxParticles1, frames)
  \/ key_point_analysis
  \/ create_river_surface
  \/ create_animation
SpecFrame == InitFrame /\ [][NextFrame]_vars

\* the animation, with update_particles also called directly after the first
\* frame and after the last
ParticleConfigs ==
  [k : {MaxK}, resolution : {resolution_final},
   river_length : {river_length_1, river_length_final}, cities : {CitiesFinal}]
UpdatePoints == {1, n_frames + 1}

InitParticles == NotConstructed({"prototipo_final"})
NextParticles ==
  \/ ConstructFinal(ParticleConfigs)
  \/ create_animation
  \/ step \in UpdatePoints /\ call_update_particles
SpecParticles == InitParticles /\ [][NextParticles]_vars

\* the particle frames of prototipo1 on a constructed model
RecycleConfigs ==
  [k : 1..MaxK, resolution : {MaxRes}, lateral : 1..MaxLat, cities : {Cities1}]

InitRecycle == NotConstructed({"prototipo1"})
NextRecycle ==
  \/ Construct1(RecycleConfigs)
  \/ \E frames \in FrameCounts : create_animation_frames(n_particles_animation, frames)
SpecRecycle == InitRecycle /\ [][NextRecycle]_vars

\* the animation with a source heavy enough for the particle cap to apply
heavy_waste == 4500
CapConfigs ==
  [k : {MaxK}, resolution : {resolution_final}, river_length : {river_length_final},
   cities : {CitiesFinal, WithWaste(CitiesFinal, {"Yauli (La Oroya)"}, heavy_waste)}]

InitCap == NotConstructed({"prototipo_final"})
NextCap ==
  \/ ConstructFinal(CapConfigs)
  \/ create_animation
SpecCap == InitCap /\ [][NextCap]_vars

\* the interactive simulator
InitSim == NotConstructed({"prototipo3"})
NextSim ==
  \/ ejecutar_simulacion
  \/ \E text \in ZoneTexts : zone_input(text)
  \/ zone_interrupt
  \/ input_eof
  \/ \E text \in KgTexts : kg_input(text)
  \/ kg_interrupt
  \/ animar
SpecSim == InitSim /\ [][NextSim]_vars

Init == InitField
Next == NextField
Spec == SpecField

(***************************************************************************)
(* Properties                                                              *)
(***************************************************************************)

\* C1: at a position upstream of the source (x < xi) the single-source
\* concentration is exactly 0, for pollution_function and for the
\* Heaviside-masked term of funcion.py.
C1_ZeroUpstream ==
  /\ (ret.op = "pollution_function" /\ ret.x < ret.xi) => ret.value = 0
  /\ program = "funcion" =>
       \A j \in 1..Len(C_i) : x[j] < puntos[fi].x_i => C_i[j] = 0

C1_Witness ==
  ret.op = "pollution_function" /\ ret.x < ret.xi /\ ret.Bi > 0 /\ ret.value = 0

\* C2: exactly at x = xi the concentration is Bi * k (the boundary counts as
\* downstream), and no position yields more than Bi * k.
C2_PeakAtSource ==
  /\ ret.op = "pollution_function" =>
       /\ ret.x = ret.xi => ret.value = ret.Bi * k * ExpScale
       /\ ret.value <= ret.Bi * k * ExpScale
  /\ program = "funcion" =>
       \A j \in 1..Len(C_i) :
          /\ x[j] = puntos[fi].x_i => C_i[j] = puntos[fi].B * k * ExpScale
          /\ C_i[j] <= puntos[fi].B * k * ExpScale

C2_Witness ==
  /\ ret.op = "pollution_function" /\ ret.x = ret.xi /\ ret.xi > 0 /\ ret.Bi > 0
  /\ ret.value = ret.Bi * k * ExpScale

\* C3: for Bi >= 0, k > 0 and xi <= x1 < x2 the concentration at x1 is at
\* least the concentration at x2.
C3_MonotoneDownstream ==
  ( /\ prev.op = "pollution_function" /\ ret.op = "pollution_function"
    /\ prev.xi = ret.xi /\ prev.Bi = ret.Bi
    /\ ret.Bi >= 0 /\ k > 0
    /\ ret.xi <= prev.x /\ prev.x < ret.x )
  => prev.value >= ret.value

C3_Witness ==
  /\ prev.op = "pollution_function" /\ ret.op = "pollution_function"
  /\ prev.xi = ret.xi /\ prev.Bi = ret.Bi /\ ret.Bi > 0
  /\ ret.xi <= prev.x /\ prev.x < ret.x
  /\ prev.value > ret.value

\* the contribution of city c to cell [j][i]
Contribution(c, j, i) ==
  MulDiv(pollution_function(x_river[i], cities_data[c].distance, cities_data[c].waste),
         lateral_factor(j, i), ExpScale)

RECURSIVE SumContributions(_, _, _)
SumContributions(S, j, i) ==
  IF S = {} THEN 0
  ELSE LET c == CHOOSE c \in S : \A d \in S : d <= c
       IN  np_add(SumContributions(S \ {c}, j, i), Contribution(c, j, i))

RECURSIVE SumTerms(_, _)
SumTerms(n, j) ==
  IF n = 0 THEN 0
  ELSE np_add(SumTerms(n - 1, j), Term(x[j], puntos[n].x_i, puntos[n].B))

\* the cities taken into account: in cities_data and in active_cities
Counted(active) ==
  IF active.none THEN 1..Len(cities_data)
  ELSE {c \in 1..Len(cities_data) : cities_data[c].name \in active.list}

\* C4: every cell of the field is the plain sum (each term added once, in the
\* order of cities_data) of the contributions of the cities that are in
\* cities_data and in active_cities (all when None), and C_total of
\* funcion.py is the sum of the C_i of the entries processed.
C4_Superposition ==
  /\ ret.op = "calculate_pollution_field" =>
       \A j \in 1..Len(y_river), i \in 1..Len(x_river) :
          ret.value[j][i] = SumContributions(Counted(ret.active), j, i)
  /\ program = "funcion" =>
       \A j \in 1..Len(x) : C_total[j] = SumTerms(fi, j)

C4_Witness ==
  /\ ret.op = "calculate_pollution_field" /\ ~ret.active.none
  /\ Cardinality(Counted(ret.active)) = 2
  /\ \E j \in 1..Len(y_river), i \in 1..Len(x_river) :
       \A c \in Counted(ret.active) :
          Contribution(c, j, i) > 0 /\ ret.value[j][i] > Contribution(c, j, i)

\* exp(-((y - y_center) / spread) ^ 2) with spread ^ 2 = 0.5
lateral_attenuation(y, yc) == np_exp(-((2 * (y - yc) * (y - yc)) \div 100))

RECURSIVE SumCentered(_, _, _)
SumCentered(S, j, i) ==
  IF S = {} THEN 0
  ELSE LET c == CHOOSE c \in S : \A d \in S : d <= c
       IN  np_add(SumCentered(S \ {c}, j, i),
                  MulDiv(pollution_function(x_river[i], cities_data[c].distance,
                                            cities_data[c].waste),
                         lateral_attenuation(Y_adjusted[j][i], y_center[i]), ExpScale))

\* C5: the cell at longitudinal sample x_i and lateral coordinate y_j is the
\* total concentration at x_i times a Gaussian of y_j minus the centerline
\* offset y_center[i].
C5_CenteredOnChannel ==
  ret.op = "calculate_pollution_field" =>
    \A j \in 1..Len(y_river), i \in 1..Len(x_river) :
       /\ ret.lateral[j][i] = lateral_attenuation(Y_adjusted[j][i], y_center[i])
       /\ ret.value[j][i] = SumCentered(Counted(ret.active), j, i)

\* C6: the lateral factor of every cell lies in (0, 1] and is exactly 1 where
\* the cell's lateral coordinate is the centerline offset y_center[i].
C6_AttenuationBounds ==
  ret.op = "calculate_pollution_field" =>
    \A j \in 1..Len(y_river), i \in 1..Len(x_river) :
       /\ 0 < ret.lateral[j][i] /\ ret.lateral[j][i] <= ExpScale
       /\ Y_adjusted[j][i] = y_center[i] => ret.lateral[j][i] = ExpScale

NonNegativeCells(grid) ==
  \A r \in 1..Len(grid) : \A c \in 1..Len(grid[r]) : grid[r][c] >= 0

\* C7 as stated: n rows (longitudinal) by m columns (lateral), cells >= 0.
C7_RowsLongitudinal ==
  ret.op = "calculate_pollution_field" =>
    /\ Len(ret.value) = resolution
    /\ \A r \in 1..Len(ret.value) : Len(ret.value[r]) = Len(y_river)
    /\ NonNegativeCells(ret.value)

\* C7 amended: the field has one row per lateral sample and one column per
\* longitudinal sample (first index lateral, second longitudinal), and every
\* cell is >= 0 for non-negative rates.
C7_RowsLateral ==
  ret.op = "calculate_pollution_field" =>
    /\ Len(ret.value) = Len(y_river)
    /\ \A r \in 1..Len(ret.value) : Len(ret.value[r]) = resolution
    /\ NonNegativeCells(ret.value)

C7_Witness ==
  /\ ret.op = "calculate_pollution_field"
  /\ Len(ret.value) = 3 /\ Len(ret.value[1]) = 4 /\ resolution = 4
  /\ \E r \in 1..3, c \in 1..4 : ret.value[r][c] > 0

InvalidParameters ==
  \/ k <= 0
  \/ resolution <= 0
  \/ \E c \in 1..Len(cities_data) : cities_data[c].waste < 0

\* C8: construction with k <= 0, a rate < 0 or a sample count <= 0 fails, and
\* no concentration is ever computed from such a value.
C8_InvalidRejected ==
  (pc # "new" /\ InvalidParameters) => (pc = "error" /\ ret.op = "none")

\* C9: every sample index that falls outside the arrays is handled by one
\* policy (always clamped or always skipped).
C9_OnePolicy == \A a \in oob, b \in oob : a.policy = b.policy

\* C10: a source of rate 0 may be removed without changing the animation:
\* no particle is created for it and no invalid arithmetic is evaluated.
C10_ZeroRateOmittable ==
  (program = "prototipo_final" /\ pc = "ready") =>
    /\ \A c \in 1..Len(cities_data) :
         cities_data[c].waste = 0 => created[cities_data[c].name] = 0
    /\ ~fp_invalid

Evaluations == {"pollution_function", "calculate_pollution_field"}

\* two returned records are evaluations with the same explicit inputs
SameCall(a, b) ==
  /\ a.op \in Evaluations /\ a.op = b.op
  /\ a.op = "pollution_function" => (a.x = b.x /\ a.xi = b.xi /\ a.Bi = b.Bi)
  /\ a.op = "calculate_pollution_field" => a.active = b.active

model_attributes ==
  <<k, river_length, resolution, cities_data, x_river, y_river, mesh1, z_river,
    river_width, waste_particles, particle_id>>

\* C11: an evaluation (pollution_function, calculate_pollution_field) changes
\* no attribute of the model, and returns the value an earlier evaluation
\* with the same inputs returned, whatever was called in between.
C11_Pure ==
  [][(ret'.op \in Evaluations /\ <<ret, prev>>' # <<ret, prev>>) =>
       /\ UNCHANGED model_attributes
       /\ SameCall(prev, ret') => ret'.value = prev.value
       /\ SameCall(ret, ret') => ret'.value = ret.value]_vars

C11_Witness ==
  /\ SameCall(prev, ret) /\ ret.op = "calculate_pollution_field"
  /\ prev.value = ret.value
  /\ \E j \in 1..Len(y_river), i \in 1..Len(x_river) : ret.value[j][i] > 0

AccumulationDone ==
  /\ accum.on
  /\ \A w \in 1..Len(accum.cols) : accum.pos[w] = Len(accum.order) * Len(accum.cols[w])

river_path == <<x_river, y_river, z_river, river_width, mesh1>>

\* C13: once __init__ has returned, no operation changes the river path
\* (x_river, y_river, z_river, river_width) or the mesh arrays of prototipo1.
C13_PathImmutable == [][pc = "ready" => UNCHANGED river_path]_vars

C13_Witness ==
  /\ program = "prototipo_final" /\ pc = "ready"
  /\ step > 10 /\ Len(waste_particles) > 0
  /\ x_river = XRiver(river_length, resolution)
  /\ y_river = YRiverFinal(x_river) /\ z_river = ZRiverFinal(x_river)
  /\ river_width = RiverWidthFinal(x_river)

\* C14: the channel width at every sample is bounded below by a positive
\* constant (0.4 in prototipo_final, 20 in prototipo1), so every left-bank
\* point of create_river_surface lies strictly below its right-bank point.
C14_WidthBounded ==
  pc = "ready" =>
    /\ program = "prototipo_final" =>
         \A i \in 1..Len(river_width) : river_width[i] >= 40
    /\ program = "prototipo1" =>
         \A i \in 1..Len(x_river) : RiverWidth1(x_river)[i] >= 2000
    /\ ret.op = "create_river_surface" =>
         \A i \in 1..Len(x_river) : ret.left_bank[i][2] < ret.right_bank[i][2]

C14_Witness ==
  /\ ret.op = "create_river_surface"
  /\ \E i \in 1..Len(river_width) : river_width[i] <= 41
  /\ \A i \in 1..Len(x_river) : ret.right_bank[i][2] - ret.left_bank[i][2] >= 80

\* C15: in every state of the animation every waste particle is at or
\* downstream of the city that emitted it (x >= xi).
C15_NoUpstreamParticle ==
  \A n \in 1..Len(waste_particles) : waste_particles[n].x >= waste_particles[n].xi

\* C16: the concentration update_particles uses for a particle is
\* pollution_function(x, xi, Bi): every particle that has been updated and
\* kept carries the size and opacity that follow from that value, and that
\* value is above the removal threshold and at most Bi * k.
C16_SameEquation ==
  \A n \in 1..Len(waste_particles) :
     LET p == waste_particles[n]
         c == pollution_function(p.x, p.xi, p.Bi)
     IN  p.age >= 1 =>
           /\ p.size = Resized(p, c).size
           /\ p.opacity = Resized(p, c).opacity
           /\ c * 10 > ConcUnit
           /\ c <= p.Bi * k * ExpScale

\* C17: the initial traces, built by the second create_frame(0) call of
\* create_animation, show the same particles (positions, sizes, opacities)
\* as the stored frame_0.
C17_Repeatable ==
  (program = "prototipo_final" /\ step = n_frames + 1) => shown.initial = shown.frame_0

\* the frame number of the create_frame call that create_animation makes next
NextFrameNum == IF step < n_frames THEN step ELSE 0

\* city c is within 2 km of the water front of the next frame
FrontAt(c) == Abs(NextFrameNum * animation_speed - cities_data[c].distance) < 20

Emits(c) == created'[cities_data[c].name] # created[cities_data[c].name]

\* C18 as stated: particles of a city are created only in frames in which
\* the water front is within 2 km of the city.
C18_OnlyAtFront ==
  [][(program = "prototipo_final" /\ pc = "ready") =>
       \A c \in 1..Len(cities_data) : Emits(c) => FrontAt(c)]_vars

\* C18 amended: particles of a city are created only in frames in which the
\* water front is within 2 km of the city or whose number is a multiple of 10.
C18_AtFrontOrPeriodic ==
  [][(program = "prototipo_final" /\ pc = "ready") =>
       \A c \in 1..Len(cities_data) :
          Emits(c) => (FrontAt(c) \/ NextFrameNum % 10 = 0)]_vars

C18_Witness ==
  /\ program = "prototipo_final" /\ pc = "ready" /\ step = 28
  /\ \E c \in 1..Len(cities_data) :
       /\ cities_data[c].name = "Jauja" /\ cities_data[c].waste > 0
       /\ created["Jauja"] = 5 * NParticles(cities_data[c])
  /\ \E c \in 1..Len(cities_data) :
       /\ cities_data[c].name = "Yauli (La Oroya)"
       /\ created["Yauli (La Oroya)"] = 4 * NParticles(cities_data[c])

\* the largest particle_size a city's particles are created with
LargestCreationSize(city) == IF city = "Huancayo" THEN 18 * ConcUnit ELSE 80 * ConcUnit

\* C19: over the lifetime of every particle, from its creation values through
\* each update_particles call, its size and its opacity never increase.
C19_NonIncreasing ==
  [][(program = "prototipo_final" /\ pc = "ready") =>
       \A m \in 1..Len(waste_particles') :
          LET q == waste_particles'[m]
          IN  /\ q.age = 1 =>
                   (q.size <= LargestCreationSize(q.source_city)
                      /\ q.opacity <= OpacityUnit)
              /\ \A n \in 1..Len(waste_particles) :
                   waste_particles[n].id = q.id =>
                      (q.size <= waste_particles[n].size
                         /\ q.opacity <= waste_particles[n].opacity)]_vars

\* the same, for the updates that follow the first one only
C19_AfterFirstUpdate ==
  [][(program = "prototipo_final" /\ pc = "ready") =>
       \A m \in 1..Len(waste_particles'), n \in 1..Len(waste_particles) :
          waste_particles[n].id = waste_particles'[m].id =>
             (waste_particles'[m].size <= waste_particles[n].size
                /\ waste_particles'[m].opacity <= waste_particles[n].opacity)]_vars

\* a particle, once advanced, has Cx <= 0.1, x > river_length or age > 100
MeetsRemoval(q) ==
  \/ q.Bi * k * np_exp(-(k * (q.x - q.xi))) * 10 <= ConcUnit
  \/ q.x > river_length
  \/ q.age > 100

Moved(p) == [p EXCEPT !.x = @ + 16, !.age = @ + 1]

Ids(particles) == [n \in 1..Len(particles) |-> particles[n].id]

Following(p) ==
  Cardinality({n \in 1..Len(waste_particles) : waste_particles[n].id > p.id})
    + (particle_id' - particle_id)

\* C21: after every create_frame call the list holds at most 200 particles,
\* in creation order, and a particle is dropped by the cap exactly when at
\* least 200 particles were created after it and are still in the list.
C21_CapKeepsNewest ==
  [][(program = "prototipo_final" /\ pc = "ready" /\ step' = step + 1) =>
       /\ Len(waste_particles') <= 200
       /\ \A m \in 1..(Len(waste_particles') - 1) :
            waste_particles'[m].id < waste_particles'[m + 1].id
       /\ \A n \in 1..Len(waste_particles) :
            LET p == waste_particles[n]
                kept == \E m \in 1..Len(waste_particles') : waste_particles'[m].id = p.id
            IN  /\ Following(p) >= 200 => ~kept
                /\ (Following(p) < 200 /\ ~MeetsRemoval(Moved(p))) => kept]_vars

C21_Witness ==
  /\ program = "prototipo_final" /\ pc = "ready" /\ step = 1
  /\ Len(waste_particles) = 200
  /\ particle_id > 200
  /\ waste_particles[1].id = particle_id - 200
  /\ waste_particles[200].id = particle_id - 1

\* C22: every update_particles call, alone or within create_frame, moves
\* each particle it keeps by animation_speed * 0.8 = 1.6 km and adds 1 to its
\* age; a particle created in the call is kept with age 1; no particle in the
\* list is older than 100 updates, so none outlives its 101st update.
C22_BoundedLifetime ==
  [][(program = "prototipo_final" /\ pc = "ready") =>
       \A m \in 1..Len(waste_particles') :
         LET q == waste_particles'[m]
         IN  /\ q.age <= 100
             /\ \A n \in 1..Len(waste_particles) :
                  waste_particles[n].id = q.id =>
                    /\ q.x = waste_particles[n].x + 16
                    /\ q.age = waste_particles[n].age + 1
             /\ q.id >= particle_id =>
                  /\ q.age = 1
                  /\ \E c \in 1..Len(cities_data) :
                     \E i \in 0..(NParticles(cities_data[c]) - 1) :
                        /\ q.xi = cities_data[c].distance
                        /\ q.x = ParticleX(q.xi, i) + 16]_vars

\* a particle that has been updated many times, and particles just created
C22_Witness ==
  /\ program = "prototipo_final" /\ pc = "ready" /\ ret = [op |-> "update_particles"]
  /\ \E m \in 1..Len(waste_particles) : waste_particles[m].age >= 20
  /\ \E m \in 1..Len(waste_particles) : waste_particles[m].age = 1

\* C23: every index the river arrays have been read at, in create_river_path,
\* add_waste_particles, update_particles and create_frame, lies in
\* 0..resolution-1, the cities lying in [0, river_length].
C23_IndexesInRange ==
  (program = "prototipo_final"
     /\ \A c \in 1..Len(cities_data) :
          cities_data[c].distance >= 0 /\ cities_data[c].distance <= river_length)
    => \A r \in indexed : r.idx >= 0 /\ r.idx <= resolution - 1

\* all four sites have read the arrays, at the first and at the last sample
C23_Witness ==
  /\ program = "prototipo_final" /\ pc = "ready" /\ step = n_frames + 1
  /\ \A c \in 1..Len(cities_data) :
       cities_data[c].distance >= 0 /\ cities_data[c].distance <= river_length
  /\ {r.site : r \in indexed}
       = {"create_river_path", "add_waste_particles", "update_particles", "create_frame"}
  /\ [site |-> "create_river_path", idx |-> 0] \in indexed
  /\ [site |-> "create_river_path", idx |-> resolution - 1] \in indexed

\* the last frame up to frame f at which particle n was restarted (0: never)
LastReset(n, f) ==
  Max(0, CHOOSE g \in 0..f :
           /\ g > 0 => ret.frame_particles[g][n].age = 0
           /\ \A h \in (g + 1)..f : ret.frame_particles[h][n].age # 0)

\* C24: create_animation_frames keeps 50 particles in every frame, each with
\* 0 <= x <= river_length; a particle whose advanced x exceeds river_length
\* is at x = 0 with age 0, any other one has advanced by 2 km and its age is
\* the number of frames since its creation or its last restart.
C24_ParticlesRecycled ==
  (program = "prototipo1" /\ ret.op = "create_animation_frames") =>
    /\ Len(ret.frame_particles) = ret.n_frames
    /\ \A f \in 1..Len(ret.frame_particles) :
         /\ Len(ret.frame_particles[f]) = 50
         /\ \A n \in 1..Len(ret.frame_particles[f]) :
              LET p == ret.frame_particles[f][n]
                  before == IF f = 1 THEN ret.created[n] ELSE ret.frame_particles[f - 1][n]
              IN  /\ p.x >= 0 /\ p.x <= river_length
                  /\ IF before.x + 20 > river_length
                       THEN p.x = 0 /\ p.age = 0
                       ELSE p.x = before.x + 20 /\ p.age = f - LastReset(n, f)

\* twenty frames in which one particle is never restarted and another one
\* reaches x = river_length and is restarted in the next frame
C24_Witness ==
  /\ program = "prototipo1" /\ ret.op = "create_animation_frames" /\ ret.n_frames = 20
  /\ \E n \in 1..50 : ret.frame_particles[20][n].age = 20
  /\ \E n \in 1..50 :
       /\ ret.frame_particles[1][n].x = river_length
       /\ ret.frame_particles[2][n] = [x |-> 0, age |-> 0]
       /\ ret.frame_particles[20][n].age = 18

\* the texts of ZoneTexts that name a zone once their blanks are removed, and
\* the texts of KgTexts that Python reads as a finite number above 0
C25_ZoneNames == {LaOroya, <<" ">> \o Chilca \o <<" ">>, Huancayo}
C25_PositiveKg ==
  {<<"5">>, <<"5", "0">>, <<"2", "5", "0", "0", ".", "5">>, <<" ", "+", "7", "5", " ">>}
C25_RejectedKg ==
  {<<"0">>, <<"0", ".", "0">>, <<"-", "5">>, <<"a", "b", "c">>, <<>>,
   <<"1", ".", "2", ".", "3">>, <<"n", "a", "n">>}

\* C25: ejecutar_simulacion leaves the zone prompt for the kg prompt only on
\* a zone name, and adds particles or starts the animation only on a kg text
\* that is a number above 0; a text that is no zone, no number or no
\* positive number leaves particulas unchanged and prompts again; an
\* interrupt at the zone prompt returns with no particle added.
C25_OnlyValidInputStarts ==
  [][program = "prototipo3" =>
       /\ (pc = "zone_prompt" /\ pc' = "kg_prompt") =>
            entered'.kind = "text" /\ entered'.text \in C25_ZoneNames
       /\ (pc # "animating" /\ (particulas' # particulas \/ pc' = "animating")) =>
            /\ pc = "kg_prompt" /\ zona \in {LaOroya, ElTambo, Chilca, Huancayo}
            /\ entered'.kind = "text" /\ entered'.text \in C25_PositiveKg
       /\ (pc = "zone_prompt" /\ entered'.kind = "text"
             /\ entered'.text \notin C25_ZoneNames) =>
            pc' = "zone_prompt" /\ particulas' = particulas /\ prompts' = prompts + 1
       /\ (pc = "kg_prompt" /\ entered'.kind = "text"
             /\ entered'.text \in C25_RejectedKg) =>
            pc' = "kg_prompt" /\ particulas' = particulas /\ prompts' = prompts + 1
       /\ (pc = "zone_prompt" /\ entered'.kind = "interrupt") =>
            pc' = "returned" /\ particulas' = particulas /\ particulas = <<>>]_vars

\* the animation started with 200 particles after two rejected inputs
C25_Witness ==
  /\ program = "prototipo3" /\ pc = "animating" /\ frame = 0
  /\ prompts >= 4
  /\ entered = [kind |-> "text", text |-> <<"2", "5", "0", "0", ".", "5">>]
  /\ Len(particulas) = 200
=============================================================================
